---- MODULE Spec2Model ----
(***************************************************************************)
(* giantbomb-show-dl: the download orchestration of bin.ts (main,          *)
(* initProgram, downloadShow, downloadVideosById, downloadVideo) together  *)
(* with the download ledger (DownloadTracker) and the catalog API          *)
(* (GiantBombAPI) it drives.                                               *)
(*                                                                         *)
(* One process runs at a time.  Every `await` of the source is a position  *)
(* of the process (pc); an action is the arrival of the awaited result     *)
(* followed by the synchronous code up to the next await.  The catalog     *)
(* API is the environment: what a lookup, a download or a probe returns is *)
(* chosen freely from small sets.  The disk (ledger files, metadata        *)
(* files) outlives the process; a process can be killed at any position    *)
(* and the tool can be invoked again on the same disk.                     *)
(***************************************************************************)
EXTENDS Integers, Sequences, FiniteSets, TLC

\* ------------------------------------------------------------------ bounds
\* Number of catalog video identifiers; also the longest video list and the
\* longest --video_id list.
MaxVideos == 2
\* Number of invocations of the tool on the same disk.
MaxRuns == 2
\* Calendar days 1..MaxDay.
MaxDay == 2
\* Instants per calendar day (time of day 0..TicksPerDay-1).
TicksPerDay == 2

\* --------------------------------------------------------------- constants
QUALITY_LOW == "low"
QUALITY_HIGH == "high"
QUALITY_HD == "hd"
QUALITY_HIGHEST == "highest"
QUALITY_OPTIONS == {QUALITY_LOW, QUALITY_HIGH, QUALITY_HD, QUALITY_HIGHEST}

\* A JavaScript value that is absent (undefined, null or the empty string):
\* all of them are falsy, which is all the source asks of them.
Null == << >>

Truthy(x) == x # Null

\* a || b of JavaScript
Or(a, b) == IF Truthy(a) THEN a ELSE b

\* -------------------------------------------------------------------- URLs
\* A URL is the sequence of its characters.
Digits == {"0", "1", "2", "3", "4", "5", "6", "7", "8", "9"}

Suffix8000 == <<"_", "8", "0", "0", "0", ".", "m", "p", "4">>

LOW_URL == <<"f", "_", "1", "8", "0", "0", ".", "m", "p", "4">>
HIGH_URL == <<"f", "_", "2", "5", "0", "0", ".", "m", "p", "4">>
HD_URL_TOKEN == <<"f", "_", "3", "5", "0", "0", ".", "m", "p", "4">>
HD_URL_PLAIN == <<"f", ".", "m", "p", "4">>
IMAGE_URL == <<"i", ".", "j", "p", "g">>

\* /_[0-9]{4}\.mp4$/ matches u
MatchesBitrate(u) ==
    /\ Len(u) >= 9
    /\ LET t == SubSeq(u, Len(u) - 8, Len(u))
       IN  /\ t[1] = "_"
           /\ \A k \in 2..5 : t[k] \in Digits
           /\ SubSeq(t, 6, 9) = <<".", "m", "p", "4">>

\* u.replace(/_[0-9]{4}\.mp4$/, "_8000.mp4")
ReplaceBitrate(u) ==
    IF MatchesBitrate(u)
    THEN SubSeq(u, 1, Len(u) - 9) \o Suffix8000
    ELSE u

\* ------------------------------------------------------------------- dates
Days == 1..MaxDay

\* dayjs(s, "YYYY-MM-DD") of a date string with no time of day
DayjsDate(day) == day * TicksPerDay

\* dayjs(video.publish_date, "YYYY-MM-DD"): the catalog's publish date
\* carries a time of day, which dayjs keeps
DayjsPublish(p) == p.day * TicksPerDay + p.tod

StartOfDay(t) == (t \div TicksPerDay) * TicksPerDay
EndOfDay(t) == StartOfDay(t) + TicksPerDay - 1

\* a.isBefore(b, "day") of dayjs: a.endOf("day") < b
IsBeforeDay(a, b) == EndOfDay(a) < b

\* a.isAfter(b, "day") of dayjs: b < a.startOf("day")
IsAfterDay(a, b) == b < StartOfDay(a)

\* ------------------------------------------------------------ catalog data
VideoIds == 1..MaxVideos

\* "YYYY-MM-DD HH:mm:ss" of the catalog: a calendar day and a time of day
PublishDates == [day : Days, tod : 0..(TicksPerDay - 1)]

\* video.name: the catalog names video n "v<n>"; only its identity matters
NameOf(id) == <<"v", id>>

\* The three video URLs the catalog can return for a video: each tier
\* present or absent, the hd URL with or without a bitrate token.
UrlSets ==
    [low_url : {Null, LOW_URL},
     high_url : {Null, HIGH_URL},
     hd_url : {Null, HD_URL_TOKEN, HD_URL_PLAIN}]

\* Video records: every identifier with publish dates P, images I and URLs U
VideoRecords(P, I, U) ==
    { [id |-> id, name |-> NameOf(id), publish_date |-> p,
       image |-> im, low_url |-> u.low_url, high_url |-> u.high_url,
       hd_url |-> u.hd_url] :
         id \in VideoIds, p \in P, im \in I, u \in U }

NoVideo ==
    [id |-> 0, name |-> Null, publish_date |-> [day |-> 0, tod |-> 0],
     image |-> Null, low_url |-> Null, high_url |-> Null, hd_url |-> Null]

\* The Show records the catalog can return: poster and logo present or not
ShowRecords == [image : {Null, IMAGE_URL}, logo : {Null, IMAGE_URL}]

NoShow == [image |-> Null, logo |-> Null]

\* Sequences over S of length lo..hi
SeqsOf(S, lo, hi) == UNION { [1..n -> S] : n \in lo..hi }

\* The video lists getVideos can return: catalog identifiers, each at most
\* once, in any order
VideoLists ==
    { l \in SeqsOf(VideoIds, 0, MaxVideos) :
        \A a, b \in 1..Len(l) : l[a] = l[b] => a = b }

\* program.video_id.split(","): one or more identifiers, repeats allowed
VideoIdLists == SeqsOf(VideoIds, 1, MaxVideos)

\* --------------------------------------------------------------- the disk
\* The two directories a ledger can live in: path.resolve(program.dir) and
\* the show's subdirectory of it.
BaseDir == "dir"

\* A show directory that is the base directory itself
ShowDirIsBaseDir == BaseDir

ShowDir == "dir/show"
Dirs == {BaseDir, ShowDir}

\* Asset keys of the ledger
VideoKey(id) == <<"id", id>>
ImageKeyIsVideoKey(id) == VideoKey(id)

ImageKey(id) == <<"id_image", id>>
ShowImageKey == <<"show_image", 0>>
ShowLogoKey == <<"show_logo", 0>>

Keys ==
    {ShowImageKey, ShowLogoKey}
        \cup { VideoKey(id) : id \in VideoIds }
        \cup { ImageKey(id) : id \in VideoIds }

\* A ledger file: absent, or the set of keys marked completed
NoFile == [exists |-> FALSE, keys |-> {}]

\* sanitize(`${video.publish_date} - ${video.name}`): the base name of a
\* video's files is a function of its publish date and name alone
Filename(v) == <<v.publish_date, v.name>>

\* A show's metadata.json: absent, or present, written so many times, with
\* the Show that was written
NoShowMetadata == [exists |-> FALSE, writes |-> 0, content |-> NoShow]

\* ------------------------------------------------------------ the tracker
\* A tracker that ignores the ledger file
TrackerLoadEmpty(file) == {}

\* new DownloadTracker(directory): the keys of the directory's ledger file,
\* none when the file is missing
TrackerLoad(file) == IF file.exists THEN file.keys ELSE {}

\* tracker.isDownloaded(key)
IsDownloaded(tr, key) == key \in tr

\* tracker.markDownloaded(key): the ledger in memory after the call
MarkDownloaded(tr, key) == tr \cup {key}

\* the ledger file markDownloaded leaves behind: the whole ledger, rewritten
TrackerSave(tr) == [exists |-> TRUE, keys |-> tr]

\* ------------------------------------------------------------ the options
\* The parsed command line.  show and video_id are absent (Null) or given;
\* dir names a directory that exists, one that does not, or is absent.
MissingDir == "nowhere"
ShowName == <<"s">>

NoProgram ==
    [show |-> Null, video_id |-> Null, api_key |-> FALSE, dir |-> "",
     quality |-> "", from_date |-> 0, to_date |-> 0]

\* --from_date / --to_date: absent (0) or a calendar day
DateOptions == {0} \cup Days

\* --from_date and --to_date given with --video_id: none, or bounds that
\* leave every day out of range
IdDateOptions == {<<0, 0>>, <<MaxDay, 1>>}

\* Command lines with --show, of qualities Q and date bounds F, T
ShowPrograms(Q, F, T) ==
    [show : {ShowName}, video_id : {Null}, api_key : {TRUE}, dir : {BaseDir},
     quality : Q, from_date : F, to_date : T]

\* Command lines with --video_id, of qualities Q and date bounds D
IdPrograms(Q, D) ==
    { [show |-> Null, video_id |-> l, api_key |-> TRUE, dir |-> BaseDir,
       quality |-> q, from_date |-> d[1], to_date |-> d[2]] :
         l \in VideoIdLists, q \in Q, d \in D }

\* initProgram that accepts any --quality
InitProgramErrorAnyQuality(p) ==
    IF Truthy(p.show) = Truthy(p.video_id) THEN "errorShowAndVideo"
    ELSE IF ~p.api_key \/ p.dir = "" THEN "errorOptionsMissing"
    ELSE IF p.dir = MissingDir THEN "errorDirectoryNotFound"
    ELSE "none"

\* initProgram: the error logged by the first check that calls
\* process.exit(1), "none" when every check passes
InitProgramError(p) ==
    IF Truthy(p.show) = Truthy(p.video_id) THEN "errorShowAndVideo"
    ELSE IF ~p.api_key \/ p.dir = "" THEN "errorOptionsMissing"
    ELSE IF p.dir = MissingDir THEN "errorDirectoryNotFound"
    ELSE IF p.quality \notin QUALITY_OPTIONS THEN "errorInvalidQuality"
    ELSE "none"

\* initProgram: TRUE when no check calls process.exit(1)
InitProgramOk(p) == InitProgramError(p) = "none"

\* Command lines of every kind: with and without --show, --video_id,
\* --api_key and --dir, with a directory that does not exist, with a quality
\* that is not one of the options
AnyPrograms ==
    [show : {Null, ShowName}, video_id : {Null, <<1>>},
     api_key : BOOLEAN, dir : {"", BaseDir, MissingDir},
     quality : {QUALITY_HIGHEST, "4k"}, from_date : {0}, to_date : {0}]

\* ----------------------------------------------------- the quality choice
\* ResolveUrl that prefers the best URL whatever the quality
ResolveUrlAnyQuality(quality, v) == Or(Or(v.hd_url, v.high_url), v.low_url)

\* downloadVideo: the URL for the requested quality, Null when there is none
ResolveUrl(quality, v) ==
    LET hdUrl == IF quality # QUALITY_LOW /\ quality # QUALITY_HIGH
                 THEN v.hd_url ELSE Null
        highUrl == IF quality # QUALITY_LOW THEN v.high_url ELSE Null
    IN  Or(Or(hdUrl, highUrl), v.low_url)

\* ProbesHighest that probes for every quality
ProbesAnyQuality(quality, v, url) == v.hd_url = url

\* downloadVideo: whether the 8k version of the resolved URL is probed
ProbesHighest(quality, v, url) ==
    quality = QUALITY_HIGHEST /\ v.hd_url = url

\* AfterProbe that never takes the 8k URL
AfterProbeIgnored(v, url, highestUrlExists) == url

\* downloadVideo: the URL downloaded after the probe answered
AfterProbe(v, url, highestUrlExists) ==
    IF highestUrlExists THEN ReplaceBitrate(v.hd_url) ELSE url

\* -------------------------------------------------------- the date filter
\* DateFilter that compares instants, not days
DateFilterExact(publish_date, fromDay, toDay) ==
    LET publishDate == DayjsPublish(publish_date)
    IN  IF fromDay # 0 /\ publishDate < DayjsDate(fromDay)
        THEN "before"
        ELSE IF toDay # 0 /\ DayjsDate(toDay) < publishDate
        THEN "after"
        ELSE "in"

\* downloadVideo: "before", "after" or "in" for a publish date and the
\* bounds passed by the caller (0: no bound)
DateFilter(publish_date, fromDay, toDay) ==
    LET publishDate == DayjsPublish(publish_date)
    IN  IF fromDay # 0 /\ IsBeforeDay(publishDate, DayjsDate(fromDay))
        THEN "before"
        ELSE IF toDay # 0 /\ IsAfterDay(publishDate, DayjsDate(toDay))
        THEN "after"
        ELSE "in"

\* ------------------------------------------------------------ the counters
ZeroCounts == [downloaded |-> 0, skipped |-> 0, failed |-> 0]

Inc(cnt, field) == [cnt EXCEPT ![field] = @ + 1]

Total(cnt) == cnt.downloaded + cnt.skipped + cnt.failed

\* ------------------------------------------------- downloadVideo, by parts
\* WriteVideoMetadata that writes the file whether it exists or not
WriteVideoMetadataAlways(files, dir, content, v) ==
    LET old == {m \in files : m.dir = dir /\ m.file = Filename(v)}
        n == IF old = {} THEN 0 ELSE (CHOOSE m \in old : TRUE).writes
    IN  (files \ old)
            \cup {[dir |-> dir, file |-> Filename(v), writes |-> n + 1,
                   content |-> content]}

\* A video's metadata file is written only when none exists at its path.
\* A file is kept as its path, the number of times it was written and the
\* content written (JSON.stringify(video)); the program never reads a file
\* back, it only tests that it exists.
WriteVideoMetadata(files, dir, content, v) ==
    IF \E m \in files : m.dir = dir /\ m.file = Filename(v)
    THEN files
    ELSE files \cup {[dir |-> dir, file |-> Filename(v), writes |-> 1,
                      content |-> content]}

\* The show's metadata.json is written only when it does not exist
WriteShowMetadata(file, content) ==
    IF file.exists THEN file
    ELSE [exists |-> TRUE, writes |-> 1, content |-> content]

\* tracker.markDownloaded(key) on ledger tr: the ledger in memory and the
\* ledger file after the call
Mark(tr, key) ==
    [tracker |-> MarkDownloaded(tr, key),
     file |-> TrackerSave(MarkDownloaded(tr, key))]

\* FinishAsset with the key marked before the result is looked at
FinishAssetMarksFirst(ok, tr, file, key) == Mark(tr, key)

\* After the download of an image (of the show or of a video) returned ok:
\* the key is marked on success only
FinishAsset(ok, tr, file, key) ==
    IF ok THEN Mark(tr, key) ELSE [tracker |-> tr, file |-> file]

\* FinishVideo that counts a success but does not mark it
FinishVideoNoMark(ok, cnt, tr, file, id) ==
    IF ok
    THEN [counts |-> Inc(cnt, "downloaded"), tracker |-> tr, file |-> file]
    ELSE [counts |-> Inc(cnt, "failed"), tracker |-> tr, file |-> file]

\* FinishVideo that marks the video before it looks at the result
FinishVideoMarksFirst(ok, cnt, tr, file, id) ==
    [counts |-> Inc(cnt, IF ok THEN "downloaded" ELSE "failed"),
     tracker |-> Mark(tr, VideoKey(id)).tracker,
     file |-> Mark(tr, VideoKey(id)).file]

\* After the download of the video file returned ok: counted as downloaded
\* and marked on success, counted as failed otherwise
FinishVideo(ok, cnt, tr, file, id) ==
    IF ok
    THEN [counts |-> Inc(cnt, "downloaded"),
          tracker |-> Mark(tr, VideoKey(id)).tracker,
          file |-> Mark(tr, VideoKey(id)).file]
    ELSE [counts |-> Inc(cnt, "failed"), tracker |-> tr, file |-> file]

\* NotFound that counts nothing, and NotFound that counts a skip
NotFoundUncounted(cnt) == cnt

NotFoundAsSkipped(cnt) == Inc(cnt, "skipped")

\* downloadVideosById: an identifier that is not found is counted as failed
NotFound(cnt) == Inc(cnt, "failed")

\* AfterImage without the completion check
AfterImageNoCheck(v, quality, cnt, tr) ==
    LET url == ResolveUrl(quality, v)
    IN  IF ~Truthy(url)
        THEN [pc |-> "loop", counts |-> Inc(cnt, "skipped"),
              url |-> Null, logged |-> "videoSkipNoURL"]
        ELSE [pc |-> IF ProbesHighest(quality, v, url)
                     THEN "checkIfExists" ELSE "downloadFile",
              counts |-> cnt, url |-> url, logged |-> "videoDownload"]

\* downloadVideo from the completion check to its next await or its return
AfterImage(v, quality, cnt, tr) ==
    IF IsDownloaded(tr, VideoKey(v.id))
    THEN [pc |-> "loop", counts |-> Inc(cnt, "skipped"), url |-> Null,
          logged |-> "videoSkipDownloaded"]
    ELSE LET url == ResolveUrl(quality, v)
         IN  IF ~Truthy(url)
             THEN [pc |-> "loop", counts |-> Inc(cnt, "skipped"),
                   url |-> Null, logged |-> "videoSkipNoURL"]
             ELSE [pc |-> IF ProbesHighest(quality, v, url)
                          THEN "checkIfExists" ELSE "downloadFile",
                   counts |-> cnt, url |-> url, logged |-> "videoDownload"]

\* EnterVideo with the metadata written before the date filter
EnterVideoMetadataFirst(v, fromDay, toDay, quality, cnt, tr) ==
    LET f == DateFilter(v.publish_date, fromDay, toDay)
        r == AfterImage(v, quality, cnt, tr)
    IN  IF f = "before"
        THEN [pc |-> "loop", counts |-> Inc(cnt, "skipped"), url |-> Null,
              logged |-> "episodeSkipBeforeDate", metadata |-> TRUE]
        ELSE IF f = "after"
        THEN [pc |-> "loop", counts |-> Inc(cnt, "skipped"), url |-> Null,
              logged |-> "episodeSkipAfterDate", metadata |-> TRUE]
        ELSE IF Truthy(v.image) /\ ~IsDownloaded(tr, ImageKey(v.id))
        THEN [pc |-> "downloadVideoImage", counts |-> cnt, url |-> Null,
              logged |-> "posterDownload", metadata |-> TRUE]
        ELSE [pc |-> r.pc, counts |-> r.counts, url |-> r.url,
              logged |-> r.logged, metadata |-> TRUE]

\* EnterVideo with the completion check first: a video already marked is
\* skipped before its metadata and its image
EnterVideoChecksFirst(v, fromDay, toDay, quality, cnt, tr) ==
    LET f == DateFilter(v.publish_date, fromDay, toDay)
        r == AfterImage(v, quality, cnt, tr)
    IN  IF f = "before"
        THEN [pc |-> "loop", counts |-> Inc(cnt, "skipped"), url |-> Null,
              logged |-> "episodeSkipBeforeDate", metadata |-> FALSE]
        ELSE IF f = "after"
        THEN [pc |-> "loop", counts |-> Inc(cnt, "skipped"), url |-> Null,
              logged |-> "episodeSkipAfterDate", metadata |-> FALSE]
        ELSE IF IsDownloaded(tr, VideoKey(v.id))
        THEN [pc |-> "loop", counts |-> Inc(cnt, "skipped"), url |-> Null,
              logged |-> "videoSkipDownloaded", metadata |-> FALSE]
        ELSE IF Truthy(v.image) /\ ~IsDownloaded(tr, ImageKey(v.id))
        THEN [pc |-> "downloadVideoImage", counts |-> cnt, url |-> Null,
              logged |-> "posterDownload", metadata |-> TRUE]
        ELSE [pc |-> r.pc, counts |-> r.counts, url |-> r.url,
              logged |-> r.logged, metadata |-> TRUE]

\* downloadVideo from its entry to its first await or its return; metadata
\* tells whether the metadata step was reached
EnterVideo(v, fromDay, toDay, quality, cnt, tr) ==
    LET f == DateFilter(v.publish_date, fromDay, toDay)
        r == AfterImage(v, quality, cnt, tr)
    IN  IF f = "before"
        THEN [pc |-> "loop", counts |-> Inc(cnt, "skipped"), url |-> Null,
              logged |-> "episodeSkipBeforeDate", metadata |-> FALSE]
        ELSE IF f = "after"
        THEN [pc |-> "loop", counts |-> Inc(cnt, "skipped"), url |-> Null,
              logged |-> "episodeSkipAfterDate", metadata |-> FALSE]
        ELSE IF Truthy(v.image) /\ ~IsDownloaded(tr, ImageKey(v.id))
        THEN [pc |-> "downloadVideoImage", counts |-> cnt, url |-> Null,
              logged |-> "posterDownload", metadata |-> TRUE]
        ELSE [pc |-> r.pc, counts |-> r.counts, url |-> r.url,
              logged |-> r.logged, metadata |-> TRUE]

\* downloadShow after the poster step: the logo is fetched unless absent or
\* already marked
AfterShowImage(sh, tr) ==
    IF Truthy(sh.logo) /\ ~IsDownloaded(tr, ShowLogoKey)
    THEN "downloadShowLogo" ELSE "getVideos"

\* AfterShowMetadata that fetches the list before the poster and the logo
AfterShowMetadataListFirst(sh, tr) == "getVideos"

\* downloadShow after the tracker is built: the poster is fetched unless
\* absent or already marked
AfterShowMetadata(sh, tr) ==
    IF Truthy(sh.image) /\ ~IsDownloaded(tr, ShowImageKey)
    THEN "downloadShowImage" ELSE AfterShowImage(sh, tr)

\* FromDay that passes --from_date in either mode
FromDayAnyMode(p) == p.from_date

\* The bounds downloadShow passes to downloadVideo; downloadVideosById
\* passes none
FromDay(p) == IF Truthy(p.show) THEN p.from_date ELSE 0
ToDay(p) == IF Truthy(p.show) THEN p.to_date ELSE 0

\* The items of the run's loop: the show's videos or the identifiers asked
Items(p, vs) == IF Truthy(p.show) THEN vs ELSE p.video_id

\* ------------------------------------------------------------------- state
VARIABLES
    run,              \* invocations of the tool so far
    pc,               \* where the process stands: the await it is parked at
    program,          \* the parsed command line
    directory,        \* the global `directory`
    show,             \* downloadShow: the Show that getShowInfo returned
    tracker,          \* the DownloadTracker's ledger in memory
    videos,           \* downloadShow: the identifiers of the listed videos
    i,                \* position of the loop in its items, from 1
    video,            \* downloadVideo: the Video being processed
    counts,           \* the DownloadCounter of the run
    urlToDownload,    \* downloadVideo: the URL chosen for the video file
    highestUrlExists, \* downloadVideo: what the 8k probe answered
    success,          \* what the last api.downloadFile returned
    logged,           \* the last logger call of the item being processed
    dirs,             \* disk: the directories that exist
    ledgerFile,       \* disk: the ledger file of each directory
    showMetadata,     \* disk: metadata.json of the show's directory
    videoMetadata,    \* disk: the videos' metadata files
    succeeded,        \* history: <<directory, key>> of every asset whose
                      \* download returned success
    env,              \* the setting: free, or a command line and a catalog
                      \* content that stay the same from run to run
    previous          \* history, in a setting that stays the same: whether
                      \* the previous run completed, and its counters

vars ==
    <<run, pc, program, directory, show, tracker, videos, i, video, counts,
      urlToDownload, highestUrlExists, success, logged, dirs, ledgerFile,
      showMetadata, videoMetadata, succeeded, env, previous>>

disk == <<dirs, ledgerFile, showMetadata, videoMetadata>>

\* No process is running
Stopped == {"idle", "complete", "exit1", "killed"}

\* The process is parked at a download of a file
Downloading ==
    {"downloadShowImage", "downloadShowLogo", "downloadVideoImage",
     "downloadFile"}

\* A setting in which every invocation and every answer of the catalog is
\* free
FreeEnv ==
    [fixed |-> FALSE, contents |-> FALSE, program |-> NoProgram,
     lookup |-> "ok",
     show |-> NoShow, videos |-> << >>,
     video |-> [id \in VideoIds |-> NoVideo]]

\* The settings that stay the same: the command line is one of P at every
\* invocation; the show lookup fails ("no_show"), or finds a show of S and
\* the list fetch fails ("no_list"), or returns a list of videos ("ok");
\* the lookup of an identifier finds its record among R, or nothing
\* (NoVideo); a listed video has a record
FixedEnvs(P, S, R) ==
    { e \in [fixed : {TRUE}, contents : {FALSE}, program : P,
             lookup : {"ok", "no_list", "no_show"},
             show : S, videos : VideoLists,
             video : [VideoIds -> R \cup {NoVideo}]] :
        /\ \A id \in VideoIds : e.video[id].id \in {0, id}
        /\ \A k \in 1..Len(e.videos) : e.video[e.videos[k]] # NoVideo
        /\ e.lookup # "ok" => e.videos = << >>
        /\ e.lookup = "no_show" => e.show = NoShow
        /\ ~Truthy(e.program.show) =>
              e.lookup = "ok" /\ e.show = NoShow /\ e.videos = << >> }

\* A free setting in which the content of the metadata files is followed
ContentsEnv == [FreeEnv EXCEPT !.contents = TRUE]

NoPrevious == [complete |-> FALSE, counts |-> ZeroCounts]

\* What is kept of the content x of a metadata file: x where contents are
\* followed, nothing (none) elsewhere
Content(x, none) == IF env.contents THEN x ELSE none

\* The catalog's record of a video is v
Holds(v) == env.fixed => v = env.video[v.id]

InitIn(E) ==
    /\ env \in E
    /\ previous = NoPrevious
    /\ run = 0
    /\ pc = "idle"
    /\ program = NoProgram
    /\ directory = BaseDir
    /\ show = NoShow
    /\ tracker = {}
    /\ videos = << >>
    /\ i = 0
    /\ video = NoVideo
    /\ counts = ZeroCounts
    /\ urlToDownload = Null
    /\ highestUrlExists = FALSE
    /\ success = FALSE
    /\ logged = "none"
    /\ dirs = {BaseDir}
    /\ ledgerFile = [d \in Dirs |-> NoFile]
    /\ showMetadata = NoShowMetadata
    /\ videoMetadata = {}
    /\ succeeded = {}

Init == InitIn({FreeEnv})

\* The memory of a process that is not running any more; its last logger
\* call stays on the console
NoMemory ==
    /\ program' = NoProgram
    /\ directory' = BaseDir
    /\ show' = NoShow
    /\ tracker' = {}
    /\ videos' = << >>
    /\ i' = 0
    /\ video' = NoVideo
    /\ counts' = ZeroCounts
    /\ urlToDownload' = Null
    /\ highestUrlExists' = FALSE
    /\ success' = FALSE

NoProcess ==
    /\ NoMemory
    /\ logged' = "none"

\* process.exit(1)
Exit1 ==
    /\ pc' = "exit1"
    /\ NoProcess

\* initProgram: a check failed, its error is logged, process.exit(1)
Rejected(p) ==
    /\ pc' = "exit1"
    /\ NoMemory
    /\ logged' = InitProgramError(p)

Record(ok, key) ==
    IF ok THEN succeeded \cup {<<directory, key>>} ELSE succeeded

\* The loop is over: the counters are reported
Complete(cnt) ==
    /\ pc' = "complete"
    /\ counts' = cnt
    /\ video' = NoVideo
    /\ urlToDownload' = Null
    /\ highestUrlExists' = FALSE
    /\ success' = FALSE
    /\ logged' = IF Truthy(program.show) THEN "showComplete"
                 ELSE "videosComplete"
    /\ UNCHANGED <<i, videoMetadata>>

\* downloadVideo(v, ...) is called for item k
StartVideo(v, k, cnt) ==
    LET r == EnterVideo(v, FromDay(program), ToDay(program),
                        program.quality, cnt, tracker)
    IN  /\ video' = v
        /\ i' = k
        /\ pc' = r.pc
        /\ counts' = r.counts
        /\ urlToDownload' = r.url
        /\ highestUrlExists' = FALSE
        /\ success' = FALSE
        /\ logged' = r.logged
        /\ videoMetadata' =
              IF r.metadata
              THEN WriteVideoMetadata(videoMetadata, directory,
                                      Content(v, NoVideo), v)
              ELSE videoMetadata

\* downloadVideosById: iteration k of the loop starts with the lookup of
\* the k-th identifier
NextId(k, cnt) ==
    IF k > Len(program.video_id)
    THEN Complete(cnt)
    ELSE /\ pc' = "getVideoById"
         /\ i' = k
         /\ counts' = cnt
         /\ video' = NoVideo
         /\ urlToDownload' = Null
         /\ highestUrlExists' = FALSE
         /\ success' = FALSE
         /\ logged' = "none"
         /\ UNCHANGED videoMetadata

\* downloadShow: iteration k of the loop calls downloadVideo on the k-th
\* video of the list.  Nothing reads a listed record before its iteration:
\* the list is kept as its identifiers and v is the record of the k-th.
NextVideo(k, vs, v, cnt) ==
    IF k > Len(vs)
    THEN Complete(cnt)
    ELSE v.id = vs[k] /\ Holds(v) /\ StartVideo(v, k, cnt)

\* ----------------------------------------------------------------- actions
\* main: the tool is invoked with command line p.  initProgram, then
\* downloadShow up to getShowInfo or downloadVideosById up to the first
\* getVideoById.
Main(p, runs) ==
    /\ pc \in Stopped
    /\ run < runs
    /\ env.fixed => p = env.program
    /\ run' = run + 1
    /\ previous' = IF env.fixed /\ pc = "complete"
                   THEN [complete |-> TRUE, counts |-> counts]
                   ELSE NoPrevious
    /\ UNCHANGED <<disk, succeeded, env>>
    /\ IF ~InitProgramOk(p)
       THEN Rejected(p)
       ELSE /\ program' = p
            /\ directory' = BaseDir
            /\ show' = NoShow
            /\ videos' = << >>
            /\ video' = NoVideo
            /\ counts' = ZeroCounts
            /\ urlToDownload' = Null
            /\ highestUrlExists' = FALSE
            /\ success' = FALSE
            /\ logged' = "none"
            /\ IF Truthy(p.show)
               THEN /\ pc' = "getShowInfo"
                    /\ tracker' = {}
                    /\ i' = 0
               ELSE /\ pc' = "getVideoById"
                    /\ tracker' = TrackerLoad(ledgerFile[BaseDir])
                    /\ i' = 1

\* api.getShowInfo found no show
GetShowInfoFails ==
    /\ pc = "getShowInfo"
    /\ env.fixed => env.lookup = "no_show"
    /\ Exit1
    /\ UNCHANGED <<run, disk, succeeded, env, previous>>

\* api.getShowInfo returned sh: the show's directory, tracker and metadata,
\* then the poster or the logo download, or getVideos
GetShowInfoReturns(sh) ==
    /\ pc = "getShowInfo"
    /\ env.fixed => env.lookup # "no_show" /\ sh = env.show
    /\ show' = sh
    /\ directory' = ShowDir
    /\ dirs' = dirs \cup {ShowDir}
    /\ tracker' = TrackerLoad(ledgerFile[ShowDir])
    /\ showMetadata' = WriteShowMetadata(showMetadata, Content(sh, NoShow))
    /\ pc' = AfterShowMetadata(sh, tracker')
    /\ logged' = "none"
    /\ UNCHANGED <<run, program, videos, i, video, counts, urlToDownload,
                   highestUrlExists, success, ledgerFile, videoMetadata,
                   succeeded, env, previous>>

\* the download of the show's poster returned ok
ShowImageReturns(ok) ==
    /\ pc = "downloadShowImage"
    /\ success' = ok
    /\ LET r == FinishAsset(ok, tracker, ledgerFile[directory], ShowImageKey)
       IN  /\ tracker' = r.tracker
           /\ ledgerFile' = [ledgerFile EXCEPT ![directory] = r.file]
    /\ succeeded' = Record(ok, ShowImageKey)
    /\ pc' = AfterShowImage(show, tracker')
    /\ UNCHANGED <<run, program, directory, show, videos, i, video, counts,
                   urlToDownload, highestUrlExists, logged, dirs,
                   showMetadata, videoMetadata, env, previous>>

\* the download of the show's logo returned ok
ShowLogoReturns(ok) ==
    /\ pc = "downloadShowLogo"
    /\ success' = ok
    /\ LET r == FinishAsset(ok, tracker, ledgerFile[directory], ShowLogoKey)
       IN  /\ tracker' = r.tracker
           /\ ledgerFile' = [ledgerFile EXCEPT ![directory] = r.file]
    /\ succeeded' = Record(ok, ShowLogoKey)
    /\ pc' = "getVideos"
    /\ UNCHANGED <<run, program, directory, show, videos, i, video, counts,
                   urlToDownload, highestUrlExists, logged, dirs,
                   showMetadata, videoMetadata, env, previous>>

\* api.getVideos failed
GetVideosFails ==
    /\ pc = "getVideos"
    /\ env.fixed => env.lookup = "no_list"
    /\ Exit1
    /\ UNCHANGED <<run, disk, succeeded, env, previous>>

\* api.getVideos returned the list vs, whose first record is v: the counters
\* start at zero and the loop calls downloadVideo on the first video
GetVideosReturns(vs, v) ==
    /\ pc = "getVideos"
    /\ env.fixed => env.lookup = "ok" /\ vs = env.videos
    /\ videos' = vs
    /\ NextVideo(1, vs, v, ZeroCounts)
    /\ UNCHANGED <<run, program, directory, show, tracker, dirs, ledgerFile,
                   showMetadata, succeeded, env, previous>>

\* api.getVideoById found nothing: counted as failed, next identifier
GetVideoByIdFails ==
    /\ pc = "getVideoById"
    /\ env.fixed => env.video[program.video_id[i]] = NoVideo
    /\ NextId(i + 1, NotFound(counts))
    /\ UNCHANGED <<run, program, directory, show, tracker, videos, dirs,
                   ledgerFile, showMetadata, succeeded, env, previous>>

\* api.getVideoById returned v for the i-th identifier
GetVideoByIdReturns(v) ==
    /\ pc = "getVideoById"
    /\ v.id = program.video_id[i]
    /\ Holds(v)
    /\ StartVideo(v, i, counts)
    /\ UNCHANGED <<run, program, directory, show, tracker, videos, dirs,
                   ledgerFile, showMetadata, succeeded, env, previous>>

\* the download of the video's image returned ok: downloadVideo goes on
\* with the completion check
VideoImageReturns(ok) ==
    /\ pc = "downloadVideoImage"
    /\ success' = ok
    /\ LET r == FinishAsset(ok, tracker, ledgerFile[directory], ImageKey(video.id))
       IN  /\ tracker' = r.tracker
           /\ ledgerFile' = [ledgerFile EXCEPT ![directory] = r.file]
    /\ succeeded' = Record(ok, ImageKey(video.id))
    /\ LET r == AfterImage(video, program.quality, counts, tracker')
       IN  /\ pc' = r.pc
           /\ counts' = r.counts
           /\ urlToDownload' = r.url
           /\ logged' = r.logged
    /\ UNCHANGED <<run, program, directory, show, videos, i, video,
                   highestUrlExists, dirs, showMetadata, videoMetadata, env,
                   previous>>

\* api.checkIfExists of the 8k URL answered exists
CheckIfExistsReturns(exists) ==
    /\ pc = "checkIfExists"
    /\ highestUrlExists' = exists
    /\ urlToDownload' = AfterProbe(video, urlToDownload, exists)
    /\ pc' = "downloadFile"
    /\ UNCHANGED <<run, program, directory, show, tracker, videos, i, video,
                   counts, success, logged, disk, succeeded, env, previous>>

\* the download of the video file returned ok: downloadVideo returns
VideoDownloadReturns(ok) ==
    /\ pc = "downloadFile"
    /\ success' = ok
    /\ LET r == FinishVideo(ok, counts, tracker, ledgerFile[directory],
                            video.id)
       IN  /\ counts' = r.counts
           /\ tracker' = r.tracker
           /\ ledgerFile' = [ledgerFile EXCEPT ![directory] = r.file]
    /\ succeeded' = Record(ok, VideoKey(video.id))
    /\ pc' = "loop"
    /\ UNCHANGED <<run, program, directory, show, videos, i, video,
                   urlToDownload, highestUrlExists, logged, dirs,
                   showMetadata, videoMetadata, env, previous>>

\* LoopNext that passes over an item
LoopNextSkipsOne(v) ==
    /\ pc = "loop"
    /\ IF Truthy(program.show)
       THEN NextVideo(i + 2, videos, v, counts)
       ELSE NextId(i + 2, counts)
    /\ UNCHANGED <<run, program, directory, show, tracker, videos, dirs,
                   ledgerFile, showMetadata, succeeded, env, previous>>

\* downloadVideo returned: the loop goes to its next item (v: the record of
\* the next listed video), or ends
LoopNext(v) ==
    /\ pc = "loop"
    /\ IF Truthy(program.show)
       THEN NextVideo(i + 1, videos, v, counts)
       ELSE NextId(i + 1, counts)
    /\ UNCHANGED <<run, program, directory, show, tracker, videos, dirs,
                   ledgerFile, showMetadata, succeeded, env, previous>>

\* The process is killed at the await it is parked at
Kill ==
    /\ pc \notin Stopped
    /\ pc' = "killed"
    /\ NoProcess
    /\ UNCHANGED <<run, disk, succeeded, env, previous>>

\* The records among R that the catalog can hold for the k-th video of list
\* l; past the end of the list there is no record to return
RecordAt(R, l, k) ==
    IF k \in 1..Len(l) THEN {v \in R : v.id = l[k]} ELSE {NoVideo}

\* One step of the system in a world W: the command lines the tool is
\* invoked with (programs, at most runs times) and the answers of the
\* catalog (shows, lists, records)
Step(W) ==
    \/ \E p \in W.programs : Main(p, W.runs)
    \/ GetShowInfoFails
    \/ \E sh \in W.shows : GetShowInfoReturns(sh)
    \/ \E ok \in BOOLEAN : ShowImageReturns(ok)
    \/ \E ok \in BOOLEAN : ShowLogoReturns(ok)
    \/ GetVideosFails
    \/ \E vs \in VideoLists :
          \E v \in RecordAt(W.records, vs, 1) : GetVideosReturns(vs, v)
    \/ GetVideoByIdFails
    \/ \E v \in RecordAt(W.records, program.video_id, i) :
          GetVideoByIdReturns(v)
    \/ \E ok \in BOOLEAN : VideoImageReturns(ok)
    \/ \E exists \in BOOLEAN : CheckIfExistsReturns(exists)
    \/ \E ok \in BOOLEAN : VideoDownloadReturns(ok)
    \/ \E v \in RecordAt(W.records, videos, i + 1) : LoopNext(v)
    \/ Kill

\* The publish date of the worlds that do not vary it
FirstDate == [day |-> 1, tod |-> 0]

\* The URLs of a video with every tier, the hd URL with a bitrate token
AllUrls ==
    [low_url |-> LOW_URL, high_url |-> HIGH_URL, hd_url |-> HD_URL_TOKEN]

\* The URLs of a video with none, with a low URL only, or with every tier
FewUrlSets ==
    {u \in UrlSets : u.high_url = Null /\ u.hd_url = Null} \cup {AllUrls}

\* Resumption: the tool is invoked MaxRuns times on the same disk, in either
\* mode and with command lines initProgram rejects; videos with and without
\* an image or a URL
World ==
    [programs |-> ShowPrograms({QUALITY_HIGHEST}, {0}, {0})
                    \cup IdPrograms({QUALITY_HIGHEST}, {<<0, 0>>})
                    \cup AnyPrograms,
     shows |-> ShowRecords,
     records |-> VideoRecords({FirstDate}, {Null, IMAGE_URL}, FewUrlSets),
     runs |-> MaxRuns]

Next == Step(World)

Spec == Init /\ [][Next]_vars

\* The date filter: one invocation with every combination of date bounds;
\* videos published at every time of every day
DatesWorld ==
    [programs |-> ShowPrograms({QUALITY_HIGHEST}, DateOptions, DateOptions)
                    \cup IdPrograms({QUALITY_HIGHEST}, IdDateOptions),
     shows |-> ShowRecords,
     records |-> VideoRecords(PublishDates, {Null, IMAGE_URL}, {AllUrls}),
     runs |-> 1]

NextDates == Step(DatesWorld)

SpecDates == Init /\ [][NextDates]_vars

\* The quality choice: one invocation with every quality; videos with every
\* combination of URLs
QualityWorld ==
    [programs |-> ShowPrograms(QUALITY_OPTIONS, {0}, {0})
                    \cup IdPrograms(QUALITY_OPTIONS, {<<0, 0>>}),
     shows |-> ShowRecords,
     records |-> VideoRecords({FirstDate}, {Null, IMAGE_URL}, UrlSets),
     runs |-> 1]

NextQuality == Step(QualityWorld)

SpecQuality == Init /\ [][NextQuality]_vars

\* The repeated invocation: the same command line MaxRuns times on the same
\* disk, against a catalog whose content does not change; downloads and
\* probes still succeed or fail freely
RerunRecords ==
    VideoRecords({FirstDate}, {Null, IMAGE_URL},
                 {u \in FewUrlSets : u.low_url = Null \/ u = AllUrls})

RerunWorld ==
    [programs |-> ShowPrograms({QUALITY_HIGHEST}, {0}, {0})
                    \cup IdPrograms({QUALITY_HIGHEST}, {<<0, 0>>}),
     shows |-> ShowRecords,
     records |-> RerunRecords,
     runs |-> MaxRuns]

InitRerun ==
    InitIn(FixedEnvs(RerunWorld.programs, RerunWorld.shows,
                     RerunWorld.records))

NextRerun == Step(RerunWorld)

SpecRerun == InitRerun /\ [][NextRerun]_vars

\* The metadata files: the tool is invoked MaxRuns times on the same disk
\* against a catalog whose records change between two lookups (a video gains
\* or loses its image, a show its poster or logo); what each metadata file
\* holds is followed
MetadataWorld ==
    [programs |-> ShowPrograms({QUALITY_HIGHEST}, {0}, {0})
                    \cup IdPrograms({QUALITY_HIGHEST}, {<<0, 0>>}),
     shows |-> ShowRecords,
     records |-> VideoRecords({FirstDate}, {Null, IMAGE_URL}, {AllUrls}),
     runs |-> MaxRuns]

InitMetadata == InitIn({ContentsEnv})

NextMetadata == Step(MetadataWorld)

SpecMetadata == InitMetadata /\ [][NextMetadata]_vars

\* ------------------------------------------------------------------ claims
\* The keys marked completed in the ledger file of directory d
Marked(d) == TrackerLoad(ledgerFile[d])

\* The asset whose file is being downloaded
AssetInFlight ==
    CASE pc = "downloadShowImage" -> ShowImageKey
      [] pc = "downloadShowLogo" -> ShowLogoKey
      [] pc = "downloadVideoImage" -> ImageKey(video.id)
      [] pc = "downloadFile" -> VideoKey(video.id)

\* C1: in every reachable state, of a run in either mode, killed or not, a
\* key is marked completed (in the ledger file of a directory, or in the
\* ledger the running process holds for its directory) only if a download
\* of that asset into that directory has returned success before; a failed
\* or interrupted download leaves no entry.
C1_MarkedOnlyAfterSuccess ==
    /\ \A d \in Dirs : \A k \in Marked(d) : <<d, k>> \in succeeded
    /\ \A k \in tracker : <<directory, k>> \in succeeded

\* C1 witness: a run was killed after the download of a video's image had
\* failed and the download of its file had succeeded: the file's key is
\* marked, the image's is not.
C1_Witness ==
    /\ pc = "killed"
    /\ VideoKey(1) \in Marked(ShowDir)
    /\ ImageKey(1) \notin Marked(ShowDir)
    /\ ShowImageKey \in Marked(ShowDir)
    /\ ShowLogoKey \notin Marked(ShowDir)

\* C2: while the file of an asset is being downloaded, the asset's key is
\* not marked completed in the ledger of the target directory, neither in
\* the file nor in memory: no download starts for a marked key, in the run
\* that marked it or in a later one (main video, <id>_image, show_image,
\* show_logo).
C2_NoDownloadOfMarked ==
    pc \in Downloading =>
        /\ AssetInFlight \notin Marked(directory)
        /\ AssetInFlight \notin tracker

\* C2 witness: a second run skips a video marked by the first one, whose
\* image and show poster are marked as well.
C2_Witness ==
    /\ run = 2
    /\ pc = "loop"
    /\ logged = "videoSkipDownloaded"
    /\ Truthy(video.image)
    /\ ImageKey(video.id) \in Marked(directory)
    /\ Truthy(show.image)
    /\ ShowImageKey \in Marked(directory)
    /\ success = FALSE

\* The number of items of the run: the listed videos, or the identifiers
ItemCount == Len(Items(program, videos))

\* C3 as stated: when the same invocation is run again on the same
\* directory, the catalog unchanged, the second run ends with
\* downloaded = 0, skipped = the number of videos, failed = 0.
C3_RerunSkipsAll ==
    (run >= 2 /\ pc = "complete" /\ previous.complete) =>
        counts = [downloaded |-> 0, skipped |-> ItemCount, failed |-> 0]

\* C3 amended: when the same invocation is run again on the same directory,
\* the catalog unchanged, after a run that completed with failed = 0, the
\* second run ends with downloaded = 0, skipped = the number of videos,
\* failed = 0.
C3_RerunAfterCleanRunSkipsAll ==
    (run >= 2 /\ pc = "complete" /\ previous.complete
        /\ previous.counts.failed = 0) =>
        counts = [downloaded |-> 0, skipped |-> ItemCount, failed |-> 0]

\* C3 witness: a first run downloaded two videos, the second run of the
\* same invocation skipped both.
C3_Witness ==
    /\ run = 2
    /\ pc = "complete"
    /\ previous.complete
    /\ previous.counts = [downloaded |-> 2, skipped |-> 0, failed |-> 0]
    /\ counts.skipped = 2

\* The process holds a DownloadTracker
TrackerBuilt == pc \notin {"idle", "exit1", "killed", "getShowInfo"}

\* C4: a key marked after its download succeeded is reported downloaded by
\* the tracker of every process that works on the same directory, the
\* marking one and every later one; a tracker built on a directory with no
\* ledger file reports no key downloaded.
C4_MarkedStaysDownloaded ==
    TrackerBuilt =>
        /\ \A k \in Keys :
              <<directory, k>> \in succeeded => IsDownloaded(tracker, k)
        /\ ~ledgerFile[directory].exists =>
              \A k \in Keys : ~IsDownloaded(tracker, k)

\* C4 witness: the tracker of a second run, built from the ledger file,
\* reports the poster that the first run marked; the second run's show has
\* no poster, so it marked nothing itself.
C4_Witness ==
    /\ run = 2
    /\ pc = "getVideos"
    /\ show = NoShow
    /\ IsDownloaded(tracker, ShowImageKey)

\* C5: a failed download of a video file adds one to failed and changes
\* no ledger, so the identifier stays unmarked; and a video is skipped as
\* already downloaded only after a download of it succeeded, so a run that
\* reaches a video in range with a URL, none of whose downloads succeeded,
\* downloads it (again).
C5_FailureStep ==
    (pc = "downloadFile" /\ pc' = "loop" /\ ~success') =>
        /\ counts' = Inc(counts, "failed")
        /\ tracker' = tracker
        /\ ledgerFile' = ledgerFile
        /\ VideoKey(video.id) \notin tracker'

C5_Retried ==
    /\ logged = "videoSkipDownloaded" =>
          <<directory, VideoKey(video.id)>> \in succeeded
    /\ (/\ pc = "loop"
        /\ video # NoVideo
        /\ <<directory, VideoKey(video.id)>> \notin succeeded
        /\ Truthy(ResolveUrl(program.quality, video))
        /\ DateFilter(video.publish_date, FromDay(program), ToDay(program))
              = "in")
          => logged = "videoDownload" /\ ~success /\ counts.failed >= 1

\* C5: every step obeys C5_FailureStep (a failed download adds one to
\* failed and leaves the identifier unmarked) and every state C5_Retried (an
\* unmarked video that is reached is downloaded again, not skipped).
C5_FailedStaysUnmarkedAndIsRetried ==
    [][C5_FailureStep]_vars /\ []C5_Retried

\* C5 witness: the first run's only video failed to download; the second
\* run of the same invocation is downloading it again.
C5_Witness ==
    /\ run = 2
    /\ pc = "downloadFile"
    /\ previous.complete
    /\ previous.counts = [downloaded |-> 0, skipped |-> 0, failed |-> 1]
    /\ ItemCount = 1
    /\ VideoKey(video.id) \notin Marked(directory)

\* C6: the counters are 0 before the loop; a step of a run leaves them
\* alone or adds exactly 1 to exactly one of them; their sum is the number
\* of items processed so far, and the number of listed videos (show mode)
\* or of requested identifiers (identifier mode) when they are reported.
C6_CountStep ==
    (pc \notin Stopped /\ pc' \notin {"killed", "exit1"}) =>
        \/ counts' = counts
        \/ \E f \in {"downloaded", "skipped", "failed"} :
              counts' = Inc(counts, f)

C6_CountSum ==
    /\ pc \in {"getShowInfo", "downloadShowImage", "downloadShowLogo",
               "getVideos"} => counts = ZeroCounts
    /\ pc \in {"getVideoById", "downloadVideoImage", "checkIfExists",
               "downloadFile"} => Total(counts) = i - 1
    /\ pc = "loop" => Total(counts) = i
    /\ pc = "complete" => Total(counts) = ItemCount

\* C6: every step obeys C6_CountStep (no counter decreases, at most one
\* goes up, by one) and every state C6_CountSum (the sum of the counters is
\* the number of items processed).
C6_OneCountPerItem == [][C6_CountStep]_vars /\ []C6_CountSum

\* C6 witness: a run by identifier reported one download and one failure
\* for its two identifiers.
C6_Witness ==
    /\ pc = "complete"
    /\ ~Truthy(program.show)
    /\ ItemCount = 2
    /\ counts = [downloaded |-> 1, skipped |-> 0, failed |-> 1]

\* C7: in show mode a video is skipped as "before" iff --from_date is given
\* and its publish day is earlier than it; otherwise as "after" iff
\* --to_date is given and its publish day is later than it; otherwise it is
\* processed, also when published on the very day of a bound at any time of
\* day.  A date skip ends the video's processing and adds one to skipped.
PublishedBefore ==
    program.from_date # 0 /\ video.publish_date.day < program.from_date

PublishedAfter ==
    program.to_date # 0 /\ video.publish_date.day > program.to_date

C7_DateSkips ==
    (Truthy(program.show) /\ video # NoVideo) =>
        /\ logged = "episodeSkipBeforeDate" <=> PublishedBefore
        /\ logged = "episodeSkipAfterDate" <=>
              (~PublishedBefore /\ PublishedAfter)
        /\ logged \in {"episodeSkipBeforeDate", "episodeSkipAfterDate"}
              => pc = "loop"

C7_DateSkipStep ==
    logged' \in {"episodeSkipBeforeDate", "episodeSkipAfterDate"} =>
        counts' = Inc(counts, "skipped")

\* C7: every state obeys C7_DateSkips (skipped iff the publish day is
\* outside the inclusive bounds) and every step C7_DateSkipStep (a date skip
\* adds one to skipped).
C7_DateFilterInclusive == [][C7_DateSkipStep]_vars /\ []C7_DateSkips

\* C7 witness: a video published late on the day that is both --from_date
\* and --to_date is being downloaded.
C7_Witness ==
    /\ Truthy(program.show)
    /\ video # NoVideo
    /\ program.from_date = video.publish_date.day
    /\ program.to_date = video.publish_date.day
    /\ video.publish_date.tod = TicksPerDay - 1
    /\ pc = "downloadFile"

\* The tiers a quality accepts, best first
Tiers(quality) ==
    CASE quality = QUALITY_LOW -> <<"low_url">>
      [] quality = QUALITY_HIGH -> <<"high_url", "low_url">>
      [] quality \in {QUALITY_HD, QUALITY_HIGHEST} ->
            <<"hd_url", "high_url", "low_url">>

\* The URL of the first tier of ts that v has, Null when it has none
RECURSIVE FirstPresent(_, _)
FirstPresent(v, ts) ==
    IF ts = << >> THEN Null
    ELSE IF v[Head(ts)] # Null THEN v[Head(ts)]
    ELSE FirstPresent(v, Tail(ts))

Preferred == FirstPresent(video, Tiers(program.quality))

\* C8: the URL chosen before any probe is the low URL for low; the high
\* URL, else the low one, for high; the hd URL, else the high, else the low
\* one, for hd and highest.  A video with no URL in the tiers of the quality
\* is never downloaded: it is logged as having no URL and adds one to
\* skipped.
C8_Chosen ==
    /\ pc = "checkIfExists" => urlToDownload = Preferred
    /\ (pc = "downloadFile" /\ ~highestUrlExists) => urlToDownload = Preferred
    /\ (video # NoVideo /\ Preferred = Null) =>
          pc \notin {"checkIfExists", "downloadFile"}
    /\ logged = "videoSkipNoURL" => Preferred = Null /\ pc = "loop"
    /\ (pc = "loop" /\ video # NoVideo /\ Preferred = Null
          /\ ~IsDownloaded(tracker, VideoKey(video.id)))
          => logged = "videoSkipNoURL"

C8_NoUrlStep ==
    logged' = "videoSkipNoURL" => counts' = Inc(counts, "skipped")

\* C8: every state obeys C8_Chosen (the URL chosen is the first present
\* one of the quality's tiers) and every step C8_NoUrlStep (a video with no
\* such URL adds one to skipped).
C8_QualityFallback == [][C8_NoUrlStep]_vars /\ []C8_Chosen

\* C8 witness: quality hd, a video with a low URL only: the low URL is
\* being downloaded.
C8_Witness ==
    /\ program.quality = QUALITY_HD
    /\ video.hd_url = Null
    /\ video.high_url = Null
    /\ pc = "downloadFile"
    /\ urlToDownload = LOW_URL

HD_URL_8000 == <<"f", "_", "8", "0", "0", "0", ".", "m", "p", "4">>

\* C9: with quality highest and an hd URL f_3500.mp4, the file downloaded is
\* f_8000.mp4 when the probe of it answered true, and f_3500.mp4 when it
\* answered false.
C9_HighestUpgrade ==
    (pc = "downloadFile" /\ program.quality = QUALITY_HIGHEST
        /\ video.hd_url = HD_URL_TOKEN) =>
        urlToDownload = IF highestUrlExists THEN HD_URL_8000
                        ELSE HD_URL_TOKEN

\* C9 witness: the probe answered true and f_8000.mp4 is being downloaded.
C9_Witness ==
    /\ pc = "downloadFile"
    /\ program.quality = QUALITY_HIGHEST
    /\ video.hd_url = HD_URL_TOKEN
    /\ highestUrlExists
    /\ urlToDownload = HD_URL_8000

\* C10: in identifier mode the video processed is the one of the i-th
\* identifier and i goes up by one at a time; an identifier that is not
\* found adds one to failed and nothing else (no download, no metadata, no
\* ledger change), and the loop goes on with the next identifier, or
\* reports when it was the last; the counters are reported only after the
\* last identifier.
C10_InOrder ==
    ~Truthy(program.show) =>
        /\ video # NoVideo => video.id = program.video_id[i]
        /\ pc = "getVideoById" => i \in 1..Len(program.video_id)
        /\ pc = "complete" => i = Len(program.video_id)

C10_NotFoundStep ==
    (pc = "getVideoById" /\ video' = NoVideo /\ pc' # "killed") =>
        /\ counts' = Inc(counts, "failed")
        /\ UNCHANGED <<tracker, dirs, ledgerFile, showMetadata, videoMetadata,
                       succeeded>>
        /\ IF i < Len(program.video_id)
           THEN pc' = "getVideoById" /\ i' = i + 1
           ELSE pc' = "complete"

C10_IndexStep ==
    (pc \notin Stopped /\ pc' \notin Stopped /\ ~Truthy(program.show)) =>
        i' \in {i, i + 1}

\* C10: every step obeys C10_NotFoundStep and C10_IndexStep (a not-found
\* identifier adds one to failed, changes nothing else and the loop goes
\* on in order) and every state C10_InOrder.
C10_NotFoundGoesOn ==
    [][C10_NotFoundStep /\ C10_IndexStep]_vars /\ []C10_InOrder

\* C10 witness: a first run by two different identifiers reported one
\* download and one failure, and wrote one metadata file: one identifier
\* was not found, the other was downloaded.
C10_Witness ==
    /\ run = 1
    /\ pc = "complete"
    /\ ~Truthy(program.show)
    /\ Len(program.video_id) = 2
    /\ program.video_id[1] # program.video_id[2]
    /\ counts = [downloaded |-> 1, skipped |-> 0, failed |-> 1]
    /\ Cardinality(videoMetadata) = 1

\* The command line has exactly one of --show and --video_id, has --api_key
\* and --dir, --dir exists and --quality is one of the four
ValidOptions(p) ==
    /\ (p.show # Null /\ p.video_id = Null)
          \/ (p.show = Null /\ p.video_id # Null)
    /\ p.api_key
    /\ p.dir \notin {"", MissingDir}
    /\ p.quality \in {"low", "high", "hd", "highest"}

InitErrors ==
    {"errorShowAndVideo", "errorOptionsMissing", "errorDirectoryNotFound",
     "errorInvalidQuality"}

\* Positions at which the process waits for the catalog API
ApiCalls ==
    {"getShowInfo", "downloadShowImage", "downloadShowLogo", "getVideos",
     "getVideoById", "downloadVideoImage", "checkIfExists", "downloadFile"}

C11_OnlyValidRuns ==
    /\ pc \in ApiCalls \cup {"loop", "complete"} => ValidOptions(program)
    /\ logged \in {"showComplete", "videosComplete"} =>
          ValidOptions(program)
    /\ pc \in Stopped \ {"complete"} =>
          tracker = {} /\ counts = ZeroCounts

C11_InvocationStep ==
    (pc \in Stopped /\ run' # run) =>
        /\ pc' = "exit1" \/ ValidOptions(program')
        /\ pc' = "exit1" <=> logged' \in InitErrors
        /\ pc' = "exit1" => UNCHANGED <<disk, succeeded>>

\* C11: an invocation either runs with valid options or ends at once with
\* exit code 1: the step of an invocation with invalid options goes to
\* exit1 with an initProgram error logged and leaves the disk (directories,
\* ledger files, metadata files) and the downloads as they were; every call
\* of the catalog API, every download and every report of the counters
\* happens in a run whose options are valid.
C11_InvalidOptionsExitFirst ==
    [][C11_InvocationStep]_vars /\ []C11_OnlyValidRuns

\* C11 witness: after a first run by identifier downloaded a video, a second
\* invocation with an invalid --quality ended with exit code 1; the ledger
\* of the first run is as it was.
C11_Witness ==
    /\ run = 2
    /\ pc = "exit1"
    /\ logged = "errorInvalidQuality"
    /\ Marked(BaseDir) = {VideoKey(1)}
    /\ Cardinality(videoMetadata) = 1

\* The metadata files at the path of video v's metadata in directory d
MetadataOf(d, v) ==
    {m \in videoMetadata : m.dir = d /\ m.file = Filename(v)}

C12_WriteStep ==
    /\ \A m \in videoMetadata : m \in videoMetadata'
    /\ \A m \in videoMetadata' \ videoMetadata :
          /\ m.writes = 1
          /\ ~\E o \in videoMetadata : o.dir = m.dir /\ o.file = m.file
          /\ m.dir = directory' /\ m.file = Filename(video')
          /\ m.content = video'
    /\ showMetadata.exists => showMetadata' = showMetadata
    /\ showMetadata' # showMetadata =>
          showMetadata' = [exists |-> TRUE, writes |-> 1, content |-> show']

C12_OneWrite ==
    /\ \A m \in videoMetadata : m.writes = 1
    /\ \A m, o \in videoMetadata :
          (m.dir = o.dir /\ m.file = o.file) => m = o
    /\ showMetadata.writes = IF showMetadata.exists THEN 1 ELSE 0

\* C12: no step changes or removes a metadata file that exists (the show's
\* metadata.json or a video's metadata file): its content and its write
\* count stay what they are, whatever record the catalog returns later, in
\* the same run or a later one; a step writes a metadata file only at a path
\* where there was none, with the record in hand; so every file was written
\* exactly once.
C12_MetadataWrittenOnce == [][C12_WriteStep]_vars /\ []C12_OneWrite

\* C12 witness: a second run in show mode processes a video and a show whose
\* records differ from those the metadata files hold (the video now has an
\* image, the show a poster): both files still hold the old records.
C12_Witness ==
    /\ run = 2
    /\ pc = "downloadVideoImage"
    /\ Truthy(program.show)
    /\ showMetadata.exists
    /\ showMetadata.content # show
    /\ \E m \in MetadataOf(directory, video) :
          /\ m.content.id = video.id
          /\ m.content.image = Null
          /\ m.content # video

\* The quality is highest and the URL resolved for the video is its hd URL
ProbeCase ==
    /\ program.quality = "highest"
    /\ video.hd_url # Null
    /\ Preferred = video.hd_url

C13_ProbeOnlyThen ==
    /\ pc = "checkIfExists" => ProbeCase
    /\ (pc = "downloadFile" /\ ~ProbeCase) =>
          urlToDownload = Preferred /\ ~highestUrlExists

C13_ProbeStep ==
    /\ (pc' = "checkIfExists" /\ pc # "checkIfExists") => ProbeCase'
    /\ (pc' = "downloadFile" /\ pc # "downloadFile") =>
          (pc = "checkIfExists" <=> ProbeCase')

\* C13: the probe is awaited only in a run of quality highest for a video
\* whose resolved URL is its hd URL; the download of a video file starts
\* right after a probe in that case and without any probe in every other
\* case (quality low, high or hd, or highest resolved to the high or the low
\* URL), and then the URL downloaded is the resolved one.
C13_ProbeOnlyForHighestHd ==
    [][C13_ProbeStep]_vars /\ []C13_ProbeOnlyThen

\* C13 witness: quality highest, a video without hd URL: the high URL is
\* being downloaded and no probe answered.
C13_Witness ==
    /\ pc = "downloadFile"
    /\ program.quality = QUALITY_HIGHEST
    /\ video.hd_url = Null
    /\ urlToDownload = HIGH_URL
    /\ ~highestUrlExists

DateSkips == {"episodeSkipBeforeDate", "episodeSkipAfterDate"}

\* The step calls downloadVideo: the loop hands it the next video
CallsDownloadVideo ==
    pc \in {"getVideos", "loop", "getVideoById"} /\ video' # NoVideo

C14_EnterStep ==
    (/\ CallsDownloadVideo
     /\ logged' \notin DateSkips
     /\ VideoKey(video'.id) \in tracker) =>
        /\ \E m \in videoMetadata' :
              m.dir = directory /\ m.file = Filename(video')
        /\ IF video'.image # Null /\ ImageKey(video'.id) \notin tracker
           THEN pc' = "downloadVideoImage" /\ counts' = counts
           ELSE /\ pc' = "loop"
                /\ logged' = "videoSkipDownloaded"
                /\ counts' = Inc(counts, "skipped")

C14_AfterImageStep ==
    (/\ pc = "downloadVideoImage"
     /\ pc' # "killed"
     /\ VideoKey(video.id) \in tracker) =>
        /\ pc' = "loop"
        /\ logged' = "videoSkipDownloaded"
        /\ counts' = Inc(counts, "skipped")
        /\ ImageKey(video.id) \in tracker' <=> success'

C14_NoDownload ==
    pc \in {"checkIfExists", "downloadFile"} =>
        VideoKey(video.id) \notin tracker

\* C14: when downloadVideo is called for a video in range whose main
\* identifier is marked completed, the same step leaves a metadata file at
\* the video's path (written if it was missing); if the video has an image
\* whose key is not marked, the image is fetched (and marked on success)
\* before anything is counted; only then the video is counted as skipped,
\* and its file is never probed or downloaded.
C14_BackfillBeforeSkip ==
    [][C14_EnterStep /\ C14_AfterImageStep]_vars /\ []C14_NoDownload

\* C14 witness: --video_id 1,1.  The first lookup returned video 1 without
\* image and its file was downloaded; the second lookup returned it with
\* another publish date and an image: a second metadata file was written,
\* the image was fetched and marked, and the video was counted as skipped.
C14_Witness ==
    /\ program.video_id = <<1, 1>>
    /\ i = 2
    /\ pc = "loop"
    /\ logged = "videoSkipDownloaded"
    /\ success
    /\ tracker = {VideoKey(1), ImageKey(1)}
    /\ Cardinality(videoMetadata) = 2
    /\ counts = [downloaded |-> 1, skipped |-> 1, failed |-> 0]

\* The ledger (in memory and on disk) after the fetch of the asset of key k
\* returned: k is added when the fetch succeeded, nothing changes otherwise
C15_MarkedIff(k) ==
    /\ tracker' = IF success' THEN tracker \cup {k} ELSE tracker
    /\ ~success' => ledgerFile' = ledgerFile /\ k \notin tracker'
    /\ Marked(directory)' = tracker'

C15_ShowAssetStep ==
    /\ (pc = "downloadShowImage" /\ pc' # "killed") =>
          /\ C15_MarkedIff(ShowImageKey)
          /\ counts' = counts
          /\ pc' = IF show.logo # Null /\ ShowLogoKey \notin tracker
                   THEN "downloadShowLogo" ELSE "getVideos"
    /\ (pc = "downloadShowLogo" /\ pc' # "killed") =>
          /\ C15_MarkedIff(ShowLogoKey)
          /\ counts' = counts
          /\ pc' = "getVideos"

C15_VideoImageStep ==
    (pc = "downloadVideoImage" /\ pc' # "killed") =>
        /\ C15_MarkedIff(ImageKey(video.id))
        /\ IF VideoKey(video.id) \in tracker
           THEN /\ pc' = "loop"
                /\ logged' = "videoSkipDownloaded"
                /\ counts' = Inc(counts, "skipped")
           ELSE IF Preferred = Null
           THEN /\ pc' = "loop"
                /\ logged' = "videoSkipNoURL"
                /\ counts' = Inc(counts, "skipped")
           ELSE /\ pc' \in {"checkIfExists", "downloadFile"}
                /\ logged' = "videoDownload"
                /\ urlToDownload' = Preferred
                /\ counts' = counts

C15_VideoStep ==
    (pc = "downloadFile" /\ pc' # "killed") =>
        /\ counts' = Inc(counts, IF success' THEN "downloaded" ELSE "failed")
        /\ tracker' = IF success' THEN tracker \cup {VideoKey(video.id)}
                      ELSE tracker

\* C15: when the fetch of an image returns (of the show's poster or logo, or
\* of a video's image), its key is marked iff the fetch succeeded, and what
\* the run does next is the same whether it succeeded or failed: after the
\* poster the logo or the list, after the logo the list, with no counter
\* changed; after a video's image the completion check and the URL choice
\* (skip as downloaded, skip for no URL, or download of the resolved URL),
\* with no other counter changed than by that outcome; the download of the
\* video file then counts and marks by its own result alone.
C15_ImageFailureChangesNothing ==
    [][C15_ShowAssetStep /\ C15_VideoImageStep /\ C15_VideoStep]_vars

\* C15 witness: in show mode the fetches of the poster and of the video's
\* image both failed: neither key is marked, no counter moved and the
\* video's file is being downloaded.
C15_Witness ==
    /\ pc = "downloadFile"
    /\ Truthy(program.show)
    /\ show.image # Null
    /\ ShowImageKey \notin tracker
    /\ video.image # Null
    /\ ImageKey(video.id) \notin tracker
    /\ ~success
    /\ counts = ZeroCounts

\* The run's items: the listed videos or the requested identifiers
RunItems == Items(program, videos)

\* Positions inside the processing of one item
InItem == {"downloadVideoImage", "checkIfExists", "downloadFile"}

C16_InOrder ==
    /\ video # NoVideo =>
          i \in 1..Len(RunItems) /\ video.id = RunItems[i]
    /\ pc \in InItem \cup {"loop"} => video # NoVideo
    /\ pc = "complete" => i = Len(RunItems)
    /\ (pc = "loop" /\ logged = "videoDownload" /\ success) =>
          VideoKey(video.id) \in Marked(directory)

C16_ItemStep ==
    /\ (pc \in InItem /\ pc' # "killed") =>
          /\ i' = i /\ video' = video
          /\ pc' \in InItem \cup {"loop"}
    /\ (pc \notin Stopped /\ pc' \notin Stopped /\ i' # i) =>
          /\ i' = i + 1
          /\ pc \in {"getVideos", "loop", "getVideoById"}
          /\ pc = "getVideos" => i = 0
          /\ pc = "getVideoById" =>
                video = NoVideo /\ counts' = Inc(counts, "failed")
          /\ pc = "loop" => Total(counts) = i
          /\ Total(counts') \in {i, i + 1}

\* C16: the process waits for one answer at a time, and the items are
\* taken one by one in input order: the video in hand is the i-th of the
\* list (show mode) or of the identifiers (identifier mode); while an
\* answer for item i is awaited, i and the video stay; i moves on, by one,
\* only from the positions where item i is over (its outcome counted, and
\* a successful download marked in the ledger file); the run completes
\* after the last item.
C16_OneAtATimeInOrder == [][C16_ItemStep]_vars /\ []C16_InOrder

\* C16 witness: show mode, list <<2, 1>>: video 2 was downloaded and marked
\* in the ledger file, and the file of video 1 is now being downloaded.
C16_Witness ==
    /\ Truthy(program.show)
    /\ videos = <<2, 1>>
    /\ i = 2
    /\ video.id = 1
    /\ pc = "downloadFile"
    /\ Marked(directory) = {VideoKey(2)}
    /\ counts = [downloaded |-> 1, skipped |-> 0, failed |-> 0]

\* The video in hand is published on a day before --from_date or after
\* --to_date
OutOfRange == PublishedBefore \/ PublishedAfter

C17_SkipStep ==
    /\ (CallsDownloadVideo /\ Truthy(program.show) /\ OutOfRange') =>
          /\ counts' = Inc(counts, "skipped")
          /\ pc' = "loop"
          /\ urlToDownload' = Null
          /\ UNCHANGED <<disk, tracker, succeeded>>
    /\ (pc = "loop" /\ pc' = "complete") => counts' = counts

C17_TwoVideos ==
    (Truthy(program.show) /\ Len(videos) = 2 /\ i = 2 /\ pc = "loop") =>
        /\ (OutOfRange /\ VideoKey(videos[1]) \in tracker) =>
              counts = [downloaded |-> 1, skipped |-> 1, failed |-> 0]
        /\ (/\ logged = "videoDownload" /\ success
            /\ Cardinality(videoMetadata) = 1) =>
              counts = [downloaded |-> 1, skipped |-> 1, failed |-> 0]

\* C17: the step that hands downloadVideo a listed video published outside
\* the date bounds adds one to skipped and returns to the loop: it writes no
\* file, starts no download and leaves the ledger alone.  So after the
\* second of two listed videos, on a disk that was empty, the counters are
\* downloaded = 1, skipped = 1 when one video was skipped for its date (it
\* has no metadata file) and the other one downloaded; these are the
\* counters reported.
C17_DateSkipOnlyCounts == [][C17_SkipStep]_vars /\ []C17_TwoVideos

\* C17 witness: --from_date is the last day and there is no --to_date; of
\* two listed videos the first was published before it, the second on it:
\* one metadata file, one ledger entry, skipped = 1 and downloaded = 1.
C17_Witness ==
    /\ Truthy(program.show)
    /\ program.from_date = MaxDay
    /\ program.to_date = 0
    /\ Len(videos) = 2
    /\ i = 2
    /\ pc = "loop"
    /\ video.publish_date.day = MaxDay
    /\ logged = "videoDownload"
    /\ success
    /\ Cardinality(videoMetadata) = 1
    /\ VideoKey(videos[1]) \notin tracker
    /\ VideoKey(videos[2]) \in tracker
    /\ counts = [downloaded |-> 1, skipped |-> 1, failed |-> 0]

C18_NoDateSkip ==
    ~Truthy(program.show) => logged \notin DateSkips

C18_FoundStep ==
    (pc = "getVideoById" /\ video' # NoVideo) =>
        /\ \E m \in videoMetadata' :
              m.dir = directory /\ m.file = Filename(video')
        /\ IF video'.image # Null /\ ImageKey(video'.id) \notin tracker
           THEN pc' = "downloadVideoImage" /\ counts' = counts
           ELSE IF VideoKey(video'.id) \in tracker
           THEN pc' = "loop" /\ logged' = "videoSkipDownloaded"
           ELSE \/ pc' = "loop" /\ logged' = "videoSkipNoURL"
                \/ pc' \in {"checkIfExists", "downloadFile"}

\* C18: a run by identifier never logs a date skip, whatever its
\* --from_date and --to_date and whatever the publish date of the video:
\* the step in which an identifier is found leaves a metadata file at the
\* video's path and goes on to the image fetch, or, past it, to the
\* completion check and the URL choice.
C18_NoDateFilterById == [][C18_FoundStep]_vars /\ []C18_NoDateSkip

\* C18 witness: --video_id with --from_date on the last day and --to_date on
\* day 1; a video published on day 1 (before --from_date) is being
\* downloaded.
C18_Witness ==
    /\ ~Truthy(program.show)
    /\ program.from_date = MaxDay
    /\ program.to_date = 1
    /\ video.publish_date.day = 1
    /\ pc = "downloadFile"
    /\ Cardinality(videoMetadata) = 1

\* The directory whose ledger a run of command line p works on
LedgerDir(p) == IF p.show # Null THEN ShowDir ELSE BaseDir

C19_OwnLedger ==
    /\ ShowDir # BaseDir
    /\ TrackerBuilt =>
          /\ directory = LedgerDir(program)
          /\ tracker = Marked(directory)
    /\ logged = "videoSkipDownloaded" =>
          VideoKey(video.id) \in Marked(LedgerDir(program))
    /\ (/\ pc = "loop"
        /\ video # NoVideo
        /\ VideoKey(video.id) \notin Marked(LedgerDir(program))
        /\ Preferred # Null) =>
          logged = "videoDownload" /\ ~success

C19_LedgerStep ==
    \A d \in Dirs :
        ledgerFile'[d] # ledgerFile[d] => d = LedgerDir(program)

\* C19: the two modes work on different directories, the show's
\* subdirectory and the base directory, and a run reads and writes the
\* ledger of its own directory only: its tracker holds the keys of that
\* ledger file, no step changes the other ledger file, and a video is
\* skipped as already downloaded only when marked there; a video with a URL
\* that is marked only in the other mode's ledger is downloaded again.
C19_LedgersDisjoint == [][C19_LedgerStep]_vars /\ []C19_OwnLedger

\* C19 witness: a show-mode run marked video 1 in the ledger of the show's
\* subdirectory; a second run, by identifier with the same --dir, does not
\* see it in the ledger of the base directory and is downloading video 1
\* again.
C19_Witness ==
    /\ run = 2
    /\ ~Truthy(program.show)
    /\ pc = "downloadFile"
    /\ video.id = 1
    /\ VideoKey(1) \in Marked(ShowDir)
    /\ VideoKey(1) \notin Marked(BaseDir)
    /\ <<ShowDir, VideoKey(1)>> \in succeeded

ShowKeys == {ShowImageKey, ShowLogoKey}

\* downloadShow between getShowInfo and getVideos
ShowAssets == {"downloadShowImage", "downloadShowLogo", "getVideos"}

C20_AbortStep ==
    /\ pc' = "getShowInfo" =>
          pc \in Stopped /\ UNCHANGED <<disk, succeeded>>
    /\ (pc = "getShowInfo" /\ pc' = "exit1") =>
          UNCHANGED <<disk, succeeded>>
    /\ (pc = "getVideos" /\ pc' = "exit1") =>
          /\ ShowDir \in dirs'
          /\ showMetadata'.exists
          /\ Marked(ShowDir)' = tracker
          /\ UNCHANGED <<disk, succeeded>>

C20_BeforeListStep ==
    /\ pc' = "getVideos" =>
          /\ pc \in {"getShowInfo", "downloadShowImage", "downloadShowLogo"}
          /\ pc = "getShowInfo" =>
                show'.image = Null \/ ShowImageKey \in tracker'
          /\ pc \in {"getShowInfo", "downloadShowImage"} =>
                show'.logo = Null \/ ShowLogoKey \in tracker'
    /\ pc \in {"getShowInfo", "downloadShowImage", "downloadShowLogo"} =>
          /\ videoMetadata' = videoMetadata
          /\ ledgerFile'[BaseDir] = ledgerFile[BaseDir]
          /\ Marked(ShowDir)' \ Marked(ShowDir) \subseteq ShowKeys
          /\ Marked(ShowDir) \subseteq Marked(ShowDir)'

C20_BeforeList ==
    /\ pc \in ShowAssets =>
          /\ ShowDir \in dirs
          /\ showMetadata.exists
          /\ video = NoVideo
          /\ i = 0
          /\ counts = ZeroCounts
    /\ pc = "exit1" => logged \in InitErrors \cup {"none"}

\* C20: the show lookup is the first thing a show-mode run waits for, and
\* neither the step up to it nor the step that aborts on show-not-found
\* changes anything on disk: no directory, no metadata, no ledger entry, no
\* download.  getVideos is
\* called only after the show's subdirectory and metadata exist and the
\* poster and the logo were fetched or had not to be (absent or marked);
\* up to there no video metadata is written and only show_image and
\* show_logo can be added to the show's ledger; the step that aborts on a
\* failed list fetch leaves the disk as it is, with these entries in the
\* ledger file; an aborted run reports no counters.
C20_AbortPoints ==
    [][C20_AbortStep /\ C20_BeforeListStep]_vars /\ []C20_BeforeList

\* C20 witness: the first run, in show mode, aborted on the list fetch: the
\* show's directory and metadata exist, poster and logo are marked in its
\* ledger, and there is no video metadata.
C20_Witness ==
    /\ run = 1
    /\ pc = "exit1"
    /\ logged = "none"
    /\ dirs = {BaseDir, ShowDir}
    /\ showMetadata.exists
    /\ Marked(ShowDir) = ShowKeys
    /\ videoMetadata = {}

====
